---- MODULE Spec2Model ----
(***************************************************************************)
(* Model of text/views.py: the transcription endpoint (transcribe_view),   *)
(* the audio helpers (get_audio_file, download_audio, convert_to_wav,      *)
(* cleanup) and the history endpoint (model_update).                       *)
(*                                                                         *)
(* File names, URLs and texts are sequences of lexical chunks: a chunk is  *)
(* one separator character (".", "/", "?", " ") or a run of ordinary       *)
(* characters ("wav", "WAV", "mp3", "a").  A path on disk is a record      *)
(* [id, suffix]: the unique part tempfile generates and the suffix it was  *)
(* asked to append.                                                        *)
(***************************************************************************)
EXTENDS Integers, Sequences, FiniteSets, TLC

VARIABLES
    disk,             \* the filesystem: path -> content of each existing file
    diskBefore,       \* the filesystem when the current request or call began
    nextId,           \* source of fresh temporary names (tempfile's random part)
    pc,               \* position of transcribe_view in its body
    request,          \* the request being handled
    file_extension,   \* transcribe_view local
    input_file_path,  \* transcribe_view local
    wav_file_path,    \* transcribe_view local
    transcription,    \* transcribe_view local
    response,         \* the response returned by the view
    events,           \* steps the current request has completed, in order
    created,          \* paths the current request created on disk
    served,           \* number of requests taken so far
    lastCall,         \* the last helper call: function, argument, outcome, disk before
    store,            \* ChatHistory rows
    output_text,      \* the output text the history requests of this run carry
    clock             \* server time at the history endpoint

vars == <<disk, diskBefore, nextId, pc, request, file_extension, input_file_path,
          wav_file_path, transcription, response, events, created, served,
          lastCall, store, output_text, clock>>

historyVars == <<store, output_text, clock>>

(***************************************************************************)
(* Bounds                                                                  *)
(***************************************************************************)
MaxNameLen == 3
MaxRequests == 1
MaxUrlLen == 3
MaxPaths == 2
MaxTextLen == 9
MaxHistoryRequests == 2

(***************************************************************************)
(* Strings as chunk sequences                                              *)
(***************************************************************************)
RECURSIVE SeqsUpTo(_, _)
SeqsUpTo(S, n) ==
    IF n = 0 THEN {<<>>}
    ELSE LET shorter == SeqsUpTo(S, n - 1)
         IN  shorter \cup {Append(s, c) : s \in {t \in shorter : Len(t) = n - 1}, c \in S}

Range(s) == {s[i] : i \in 1..Len(s)}

\* str.rfind(ch): the last index of ch in p, 0 when absent (Python: -1, 0-based)
rfind(p, ch) ==
    LET hits == {i \in 1..Len(p) : p[i] = ch}
    IN  IF hits = {} THEN 0 ELSE CHOOSE i \in hits : \A j \in hits : j <= i

\* genericpath._splitext as os.path.splitext uses it: <<root, ext>>.  The
\* extension starts at the last dot after the last separator, unless only
\* dots precede it in the file name.
splitext(p) ==
    LET sepIndex == rfind(p, "/")
        dotIndex == rfind(p, ".")
    IN  IF dotIndex > sepIndex
           /\ \E k \in (sepIndex + 1)..(dotIndex - 1) : p[k] # "."
        THEN <<SubSeq(p, 1, dotIndex - 1), SubSeq(p, dotIndex, Len(p))>>
        ELSE <<p, <<>> >>

lowerChunk(c) == IF c = "WAV" THEN "wav" ELSE IF c = "MP3" THEN "mp3" ELSE c

\* str.lower()
lower(s) == [i \in 1..Len(s) |-> lowerChunk(s[i])]

WavExt == <<".", "wav">>

\* e is a proper extension of p: p ends in e, e is a dot followed by chunks
\* that are neither dots nor separators, and the file name has a chunk other
\* than a dot before e
ProperExt(e, p) ==
    /\ e # <<>>
    /\ Len(e) <= Len(p)
    /\ SubSeq(p, Len(p) - Len(e) + 1, Len(p)) = e
    /\ e[1] = "."
    /\ \A i \in 2..Len(e) : e[i] \notin {".", "/"}
    /\ LET root == SubSeq(p, 1, Len(p) - Len(e))
       IN  \E k \in 1..Len(root) :
              /\ root[k] \notin {".", "/"}
              /\ \A j \in k..Len(root) : root[j] # "/"

\* e is the extension of p, empty when p has no proper extension
ExtensionIs(e, p) ==
    \/ ProperExt(e, p)
    \/ /\ e = <<>>
       /\ ~ \E n \in 1..Len(p) : ProperExt(SubSeq(p, n, Len(p)), p)

(***************************************************************************)
(* Files                                                                   *)
(***************************************************************************)
NoPath == [id |-> 0 - 1, suffix |-> <<>>]

\* tempfile.NamedTemporaryFile(suffix=...) / tempfile.mktemp(suffix=...):
\* a name no existing file has, ending in the suffix
TempName(suffix) == [id |-> nextId, suffix |-> suffix]

exists(path) == path \in DOMAIN disk

WriteFile(d, path, content) == [p \in DOMAIN d \cup {path} |-> IF p = path THEN content ELSE d[p]]

RemoveFile(d, path) == [p \in DOMAIN d \ {path} |-> d[p]]

\* audio bytes: the container they are encoded in and what is spoken
Contents ==
    { [codec |-> "wav", audio |-> "hello"],
      [codec |-> "mp3", audio |-> "hello"],
      [codec |-> "none", audio |-> ""] }

\* AudioSegment.from_file can decode the bytes
Decodable(content) == content.codec # "none"

\* AudioSegment.export(..., format="wav"): the same audio re-encoded as wav
ExportWav(content) == [codec |-> "wav", audio |-> content.audio]

\* whisper: model.transcribe(path)["text"]
WhisperText(content) == content.audio

(***************************************************************************)
(* transcribe_view                                                         *)
(***************************************************************************)
Methods == {"POST", "GET"}

\* names a client can give its upload (Django keeps the base name only)
UploadNames == SeqsUpTo({"mp3", ".", "wav", "WAV"}, MaxNameLen) \ {<<>>}

UploadedFiles == [name : UploadNames, content : Contents]

\* request.FILES: the multipart fields that carry a file
FilesChoices ==
    {[f \in {} |-> 0]}
        \cup {[audio |-> u] : u \in UploadedFiles}
        \cup {[file |-> u] : u \in {[name |-> <<"mp3", ".", "wav">>, content |-> c] : c \in Contents}}

NoRequest == [method |-> "", FILES |-> [f \in {} |-> 0]]

NoResponse == [status |-> 0, body |-> [f \in {} |-> 0]]

\* what a failed write or export leaves in the file
Truncated == [codec |-> "none", audio |-> ""]

\* @require_http_methods(["POST"])
MethodAllowed(method) == method = "POST"

NotAllowedResponse == [status |-> 405, body |-> [f \in {} |-> 0]]

\* the check looks for another field name
AudioMissing_WrongField(req) == "file" \notin DOMAIN req.FILES

\* 'audio' not in request.FILES
AudioMissing(req) == "audio" \notin DOMAIN req.FILES

NoAudioResponse == [status |-> 400, body |-> [error |-> "No audio file provided"]]

\* JsonResponse({"transcription": transcription})
SuccessResponse(text) == [status |-> 200, body |-> [transcription |-> text]]

\* the except clause answers without status=400
ExceptResponse_DefaultStatus(msg) == [status |-> 200, body |-> [error |-> msg]]

\* except Exception as e: JsonResponse({"error": str(e)}, status=400)
ExceptResponse(msg) == [status |-> 400, body |-> [error |-> msg]]

\* the try block is left for its except clause
Raise(msg) ==
    /\ pc' = "done"
    /\ response' = ExceptResponse(msg)

\* if file_extension != ".wav" (the normalize step)
NeedsConversion(ext) == ext # WavExt

\* the cleanup step forgets the converted file
RemovesConverted_Never(ext) == FALSE

\* if file_extension != ".wav" (the cleanup step)
RemovesConverted(ext) == ext # WavExt

\* the decorator takes the next request and lets POST through to the view
RequireHttpMethods ==
    /\ pc = "idle"
    /\ served < MaxRequests
    /\ served' = served + 1
    /\ \E method \in Methods, files \in FilesChoices :
         /\ request' = [method |-> method, FILES |-> files]
         /\ IF MethodAllowed(method)
            THEN pc' = "check" /\ response' = NoResponse
            ELSE pc' = "done" /\ response' = NotAllowedResponse
    /\ diskBefore' = disk
    /\ UNCHANGED <<disk, nextId, file_extension, input_file_path, wav_file_path,
                   transcription, events, created, lastCall, historyVars>>

\* the response is sent and the view's frame is gone
SendResponse ==
    /\ pc = "done"
    /\ pc' = "idle"
    /\ request' = NoRequest
    /\ response' = NoResponse
    /\ events' = <<>>
    /\ created' = {}
    /\ file_extension' = <<>>
    /\ input_file_path' = NoPath
    /\ wav_file_path' = NoPath
    /\ transcription' = ""
    /\ UNCHANGED <<disk, diskBefore, nextId, served, lastCall, historyVars>>

CheckAudioField ==
    /\ pc = "check"
    /\ IF AudioMissing(request)
       THEN pc' = "done" /\ response' = NoAudioResponse
       ELSE pc' = "receive" /\ UNCHANGED response
    /\ UNCHANGED <<diskBefore, disk, nextId, request, file_extension, input_file_path,
                   wav_file_path, transcription, events, created, served,
                   lastCall, historyVars>>

\* audio_file = request.FILES['audio'] ... input_file_path = temp_file.name
Receive ==
    /\ pc = "receive"
    /\ events' = Append(events, "receive")
    /\ IF "audio" \notin DOMAIN request.FILES
       THEN /\ Raise("'audio'")
            /\ UNCHANGED <<disk, nextId, file_extension, input_file_path, created>>
       ELSE LET audio_file == request.FILES.audio
                ext == lower(splitext(audio_file.name)[2])
                path == TempName(ext)
            IN  /\ file_extension' = ext
                /\ \/ \* the temporary file cannot be created
                      /\ Raise("cannot create temporary file")
                      /\ UNCHANGED <<disk, nextId, input_file_path, created>>
                   \/ \* a chunk cannot be written: the file stays, delete=False
                      /\ Raise("No space left on device")
                      /\ disk' = WriteFile(disk, path, Truncated)
                      /\ created' = created \cup {path}
                      /\ nextId' = nextId + 1
                      /\ UNCHANGED input_file_path
                   \/ /\ disk' = WriteFile(disk, path, audio_file.content)
                      /\ created' = created \cup {path}
                      /\ nextId' = nextId + 1
                      /\ input_file_path' = path
                      /\ pc' = "normalize"
                      /\ UNCHANGED response
    /\ UNCHANGED <<diskBefore, request, wav_file_path, transcription, served, lastCall, historyVars>>

\* if file_extension != ".wav": from_file, mktemp, export; else reuse the upload
Normalize ==
    /\ pc = "normalize"
    /\ IF NeedsConversion(file_extension)
       THEN /\ events' = Append(events, "normalize")
            /\ IF ~exists(input_file_path) \/ ~Decodable(disk[input_file_path])
               THEN /\ Raise("Decoding failed")
                    /\ UNCHANGED <<disk, nextId, wav_file_path, created>>
               ELSE LET wav == TempName(WavExt)
                    IN  /\ wav_file_path' = wav
                        /\ nextId' = nextId + 1
                        /\ \/ \* export fails before the output file exists
                              /\ Raise("cannot open output file")
                              /\ UNCHANGED <<disk, created>>
                           \/ \* export fails half way
                              /\ Raise("Encoding failed")
                              /\ disk' = WriteFile(disk, wav, Truncated)
                              /\ created' = created \cup {wav}
                           \/ /\ disk' = WriteFile(disk, wav, ExportWav(disk[input_file_path]))
                              /\ created' = created \cup {wav}
                              /\ pc' = "transcribe"
                              /\ UNCHANGED response
       ELSE /\ wav_file_path' = input_file_path
            /\ pc' = "transcribe"
            /\ UNCHANGED <<disk, nextId, response, events, created>>
    /\ UNCHANGED <<diskBefore, request, file_extension, input_file_path, transcription,
                   served, lastCall, historyVars>>

\* model = whisper.load_model("base"); result = model.transcribe(wav_file_path)
Transcribe ==
    /\ pc = "transcribe"
    /\ \/ \* the model cannot be loaded
          /\ events' = Append(events, "load_model")
          /\ Raise("cannot load model")
          /\ UNCHANGED transcription
       \/ /\ events' = events \o <<"load_model", "transcribe">>
          /\ IF ~exists(wav_file_path) \/ ~Decodable(disk[wav_file_path])
             THEN Raise("Failed to load audio") /\ UNCHANGED transcription
             ELSE /\ transcription' = WhisperText(disk[wav_file_path])
                  /\ pc' = "remove_input"
                  /\ UNCHANGED response
    /\ UNCHANGED <<diskBefore, disk, nextId, request, file_extension, input_file_path,
                   wav_file_path, created, served, lastCall, historyVars>>

\* os.remove(input_file_path)
RemoveInput ==
    /\ pc = "remove_input"
    /\ events' = Append(events, "cleanup")
    /\ \/ \* os.remove raises OSError
          /\ Raise("cannot remove file")
          /\ UNCHANGED disk
       \/ /\ exists(input_file_path)
          /\ disk' = RemoveFile(disk, input_file_path)
          /\ pc' = IF RemovesConverted(file_extension) THEN "remove_wav" ELSE "respond"
          /\ UNCHANGED response
    /\ UNCHANGED <<diskBefore, nextId, request, file_extension, input_file_path, wav_file_path,
                   transcription, created, served, lastCall, historyVars>>

\* os.remove(wav_file_path)
RemoveWav ==
    /\ pc = "remove_wav"
    /\ \/ /\ Raise("cannot remove file")
          /\ UNCHANGED disk
       \/ /\ exists(wav_file_path)
          /\ disk' = RemoveFile(disk, wav_file_path)
          /\ pc' = "respond"
          /\ UNCHANGED response
    /\ UNCHANGED <<diskBefore, nextId, request, file_extension, input_file_path, wav_file_path,
                   transcription, events, created, served, lastCall, historyVars>>

\* return JsonResponse({"transcription": transcription})
Respond ==
    /\ pc = "respond"
    /\ events' = Append(events, "respond")
    /\ response' = SuccessResponse(transcription)
    /\ pc' = "done"
    /\ UNCHANGED <<diskBefore, disk, nextId, request, file_extension, input_file_path,
                   wav_file_path, transcription, created, served, lastCall, historyVars>>

NoCall == [fn |-> "", outcome |-> ""]

ViewInit ==
    /\ disk = [p \in {} |-> 0]
    /\ diskBefore = [p \in {} |-> 0]
    /\ nextId = 1
    /\ pc = "idle"
    /\ request = NoRequest
    /\ file_extension = <<>>
    /\ input_file_path = NoPath
    /\ wav_file_path = NoPath
    /\ transcription = ""
    /\ response = NoResponse
    /\ events = <<>>
    /\ created = {}
    /\ served = 0
    /\ lastCall = NoCall
    /\ store = <<>>
    /\ output_text = <<>>
    /\ clock = 0

Init == ViewInit

Next ==
    \/ RequireHttpMethods
    \/ CheckAudioField
    \/ Receive
    \/ Normalize
    \/ Transcribe
    \/ RemoveInput
    \/ RemoveWav
    \/ Respond
    \/ SendResponse

Spec == Init /\ [][Next]_vars

(***************************************************************************)
(* Claims about transcribe_view (checked under Spec)                       *)
(***************************************************************************)
IsSuccessShape(r) == r.status = 200 /\ DOMAIN r.body = {"transcription"}

IsErrorShape(r) == r.status = 400 /\ DOMAIN r.body = {"error"}

Leftovers == created \cap DOMAIN disk

\* C1: every POST handled by transcribe_view ends in exactly one of
\* 200 {"transcription": text} and 400 {"error": message}; a failure at any
\* step after the audio-field check becomes the 400 error response.
C1_TwoResponses ==
    (pc = "done" /\ request.method = "POST") =>
        /\ IsSuccessShape(response) # IsErrorShape(response)
        /\ ("respond" \notin Range(events)) => IsErrorShape(response)

\* a POST whose pipeline failed after the audio-field check has been answered
C1_Witness ==
    /\ pc = "done"
    /\ request.method = "POST"
    /\ "cleanup" \in Range(events)
    /\ IsErrorShape(response)

\* C2: a POST without an 'audio' file is answered 400 "No audio file
\* provided" before any later step: no file is created, nothing is converted
\* and the model is neither loaded nor invoked.
C2_NoAudioEarlyReturn ==
    (pc = "done" /\ request.method = "POST" /\ "audio" \notin DOMAIN request.FILES) =>
        /\ response = [status |-> 400, body |-> [error |-> "No audio file provided"]]
        /\ events = <<>>
        /\ created = {}
        /\ disk = diskBefore

\* a POST carrying a file under another field name has been answered
C2_Witness ==
    /\ pc = "done"
    /\ request.method = "POST"
    /\ DOMAIN request.FILES = {"file"}
    /\ response.status = 400

\* the order of steps of a successful request, from the upload's name
ExpectedSteps(name) ==
    IF ~ExtensionIs(<<".", "wav">>, name) /\ ~ExtensionIs(<<".", "WAV">>, name)
    THEN <<"receive", "normalize", "load_model", "transcribe", "cleanup", "respond">>
    ELSE <<"receive", "load_model", "transcribe", "cleanup", "respond">>

\* C3: a request answered 200 went receive -> normalize (only for a
\* non-.wav lower-cased extension) -> transcribe -> cleanup -> respond; the
\* file given to the model exists when transcription runs, and at the 200
\* no temporary file of the request is left on disk.
C3_OrderAndCleanup ==
    /\ (pc \in {"transcribe", "remove_input"}) =>
           (exists(wav_file_path) /\ exists(input_file_path))
    /\ (pc = "done" /\ response.status = 200) =>
           /\ events = ExpectedSteps(request.FILES.audio.name)
           /\ Leftovers = {}
           /\ disk = diskBefore

\* an upload that needed conversion has been answered 200
C3_Witness ==
    /\ pc = "done"
    /\ response.status = 200
    /\ "normalize" \in Range(events)
    /\ Cardinality(created) = 2

\* C4 (as claimed): a deletion failure in the cleanup step does not fail the
\* request: once transcription has succeeded the response is the 200.
C4_CleanupDoesNotFailRequest ==
    (pc = "done" /\ "cleanup" \in Range(events)) =>
        response = [status |-> 200, body |-> [transcription |-> transcription]]

\* C5 (as claimed): when a step after the upload was written raises, the
\* temporary files of the request are gone by the time the 400 is returned.
C5_ErrorPathDeletesTempFiles ==
    (/\ pc = "done"
     /\ response.status = 400
     /\ input_file_path # NoPath
     /\ "cleanup" \notin Range(events)) => Leftovers = {}

(***************************************************************************)
(* The audio helpers: get_audio_file, download_audio, convert_to_wav,      *)
(* cleanup.  Nothing in views.py calls them; they are called here on their *)
(* own, from a disk that holds a few local files.                          *)
(***************************************************************************)
LocalWav == [id |-> 101, suffix |-> <<".", "wav">>]

LocalMp3 == [id |-> 102, suffix |-> <<".", "mp3">>]

LocalMissing == [id |-> 103, suffix |-> <<".", "wav">>]

\* paths a caller may name: two files that exist at the start, one that never does
CallerPaths == {LocalWav, LocalMp3, LocalMissing}

LocalDisk ==
    [p \in {LocalWav, LocalMp3} |->
        IF p = LocalWav THEN [codec |-> "wav", audio |-> "hello"]
                        ELSE [codec |-> "mp3", audio |-> "hello"]]

\* a URL is "http://host/" followed by these chunks; "?" starts the query
Urls == SeqsUpTo({"/", ".", "mp3", "?"}, MaxUrlLen)

RECURSIVE TakeUntil(_, _)
TakeUntil(s, ch) ==
    IF s = <<>> \/ Head(s) = ch THEN <<>> ELSE <<Head(s)>> \o TakeUntil(Tail(s), ch)

\* urlparse(url).path
UrlPath(url) == <<"/">> \o TakeUntil(url, "?")

\* the extension is taken from the URL as a whole
UrlExtension_WholeUrl(url) == splitext(<<"/">> \o url)[2]

\* os.path.splitext(urlparse(url).path)[1]
UrlExtension(url) == splitext(UrlPath(url))[2]

\* response.status_code == 200
DownloadOk(status) == status = 200

HttpResponses == [status_code : {200, 201, 404}, content : Contents]

NoError == [type |-> "", msg |-> <<>>]

Returned(fn, arg, http, value) ==
    [fn |-> fn, arg |-> arg, http |-> http, outcome |-> "return", value |-> value,
     error |-> NoError]

Raised(fn, arg, http, type, msg) ==
    [fn |-> fn, arg |-> arg, http |-> http, outcome |-> "raise", value |-> NoPath,
     error |-> [type |-> type, msg |-> msg]]

NoHttp == [status_code |-> 0, content |-> Truncated]

\* download_audio(url), called by fn with argument arg
DownloadAudio(fn, arg, url) ==
    \/ \* requests.get raises: no response arrives
       /\ lastCall' = Raised(fn, arg, NoHttp, "ConnectionError", <<"connection failed">>)
       /\ UNCHANGED <<disk, nextId>>
    \/ \E http \in HttpResponses :
         IF DownloadOk(http.status_code)
         THEN LET path == TempName(UrlExtension(url))
              IN  \/ /\ lastCall' = Raised(fn, arg, http, "OSError", <<"cannot create temporary file">>)
                     /\ UNCHANGED <<disk, nextId>>
                  \/ /\ lastCall' = Raised(fn, arg, http, "OSError", <<"No space left on device">>)
                     /\ disk' = WriteFile(disk, path, Truncated)
                     /\ nextId' = nextId + 1
                  \/ /\ lastCall' = Returned(fn, arg, http, path)
                     /\ disk' = WriteFile(disk, path, http.content)
                     /\ nextId' = nextId + 1
         ELSE /\ lastCall' = Raised(fn, arg, http, "Exception",
                                    <<"Failed to download audio: HTTP ", ToString(http.status_code)>>)
              /\ UNCHANGED <<disk, nextId>>

\* the existence test is left out
PathFound_Always(d, path) == TRUE

\* os.path.exists(data['audio_path'])
PathFound(d, path) == path \in DOMAIN d

HelperUpload == [name |-> <<"mp3", ".", "WAV">>, content |-> [codec |-> "wav", audio |-> "hello"]]

DataKeys == {"audio_file", "audio_url", "audio_path"}

Dict(K, upload, url, path) ==
    [k \in K |-> CASE k = "audio_file" -> upload
                   [] k = "audio_url" -> url
                   [] OTHER -> path]

\* the dictionaries get_audio_file may be given
DataChoices == {Dict(K, HelperUpload, url, path) : K \in SUBSET DataKeys, url \in Urls, path \in CallerPaths}

HelperCallBegins ==
    /\ pc = "idle"
    /\ pc' = "returned"
    /\ served < MaxRequests
    /\ served' = served + 1
    /\ diskBefore' = disk
    /\ UNCHANGED <<request, file_extension, input_file_path, wav_file_path,
                   transcription, response, events, created, historyVars>>

\* the caller has taken the result of the call
CallerTakesResult ==
    /\ pc = "returned"
    /\ pc' = "idle"
    /\ lastCall' = NoCall
    /\ UNCHANGED <<disk, diskBefore, nextId, request, file_extension, input_file_path,
                   wav_file_path, transcription, response, events, created, served,
                   historyVars>>

\* get_audio_file(data)
GetAudioFile ==
    /\ HelperCallBegins
    /\ \E data \in DataChoices :
         IF "audio_file" \in DOMAIN data
         THEN LET uploaded_file == data["audio_file"]
                  path == TempName(splitext(uploaded_file.name)[2])
              IN  \/ /\ lastCall' = Raised("get_audio_file", data, NoHttp, "OSError",
                                           <<"cannot create temporary file">>)
                     /\ UNCHANGED <<disk, nextId>>
                  \/ /\ lastCall' = Raised("get_audio_file", data, NoHttp, "OSError",
                                           <<"No space left on device">>)
                     /\ disk' = WriteFile(disk, path, Truncated)
                     /\ nextId' = nextId + 1
                  \/ /\ lastCall' = Returned("get_audio_file", data, NoHttp, path)
                     /\ disk' = WriteFile(disk, path, uploaded_file.content)
                     /\ nextId' = nextId + 1
         ELSE IF "audio_url" \in DOMAIN data
         THEN DownloadAudio("get_audio_file", data, data["audio_url"])
         ELSE IF "audio_path" \in DOMAIN data
         THEN /\ lastCall' =
                    IF PathFound(disk, data["audio_path"])
                    THEN Returned("get_audio_file", data, NoHttp, data["audio_path"])
                    ELSE Raised("get_audio_file", data, NoHttp, "FileNotFoundError",
                                <<"File not found: ", data["audio_path"]>>)
              /\ UNCHANGED <<disk, nextId>>
         ELSE /\ lastCall' = Raised("get_audio_file", data, NoHttp, "ValueError",
                                    <<"No audio input provided">>)
              /\ UNCHANGED <<disk, nextId>>

\* download_audio(url) called directly
CallDownloadAudio ==
    /\ HelperCallBegins
    /\ \E url \in Urls : DownloadAudio("download_audio", url, url)

\* convert_to_wav(input_file)
ConvertToWav ==
    /\ HelperCallBegins
    /\ \E input_file \in CallerPaths \cup DOMAIN disk :
         IF ~exists(input_file) \/ ~Decodable(disk[input_file])
         THEN /\ lastCall' = Raised("convert_to_wav", input_file, NoHttp,
                                    "CouldntDecodeError", <<"Decoding failed">>)
              /\ UNCHANGED <<disk, nextId>>
         ELSE LET wav_file == TempName(WavExt)
              IN  \/ /\ lastCall' = Raised("convert_to_wav", input_file, NoHttp, "OSError",
                                           <<"cannot create temporary file">>)
                     /\ UNCHANGED <<disk, nextId>>
                  \/ \* export fails: the empty temporary file stays
                     /\ lastCall' = Raised("convert_to_wav", input_file, NoHttp, "OSError",
                                           <<"Encoding failed">>)
                     /\ disk' = WriteFile(disk, wav_file, Truncated)
                     /\ nextId' = nextId + 1
                  \/ /\ lastCall' = Returned("convert_to_wav", input_file, NoHttp, wav_file)
                     /\ disk' = WriteFile(disk, wav_file, ExportWav(disk[input_file]))
                     /\ nextId' = nextId + 1

\* the loop of cleanup from its i-th path on; os.remove fails for a path
\* that is absent and for the positions in denied.  A failure is printed
\* and the loop goes on.
RECURSIVE CleanupLoop(_, _, _, _)
CleanupLoop(d, file_paths, i, denied) ==
    IF i > Len(file_paths) THEN [disk |-> d, printed |-> <<>>]
    ELSE IF file_paths[i] \in DOMAIN d /\ i \notin denied
    THEN CleanupLoop(RemoveFile(d, file_paths[i]), file_paths, i + 1, denied)
    ELSE LET rest == CleanupLoop(d, file_paths, i + 1, denied)
         IN  [disk |-> rest.disk, printed |-> <<file_paths[i]>> \o rest.printed]

\* cleanup(*file_paths)
Cleanup ==
    /\ HelperCallBegins
    /\ \E file_paths \in SeqsUpTo(CallerPaths \cup DOMAIN disk, MaxPaths) :
         \E denied \in SUBSET (1..Len(file_paths)) :
            LET result == CleanupLoop(disk, file_paths, 1, denied)
            IN  /\ disk' = result.disk
                /\ lastCall' = [fn |-> "cleanup", arg |-> file_paths, outcome |-> "return",
                                printed |-> result.printed]
                /\ UNCHANGED nextId

HelperInit ==
    /\ disk = LocalDisk
    /\ diskBefore = LocalDisk
    /\ nextId = 1
    /\ pc = "idle"
    /\ request = NoRequest
    /\ file_extension = <<>>
    /\ input_file_path = NoPath
    /\ wav_file_path = NoPath
    /\ transcription = ""
    /\ response = NoResponse
    /\ events = <<>>
    /\ created = {}
    /\ served = 0
    /\ lastCall = NoCall
    /\ store = <<>>
    /\ output_text = <<>>
    /\ clock = 0

HelperNext ==
    \/ GetAudioFile
    \/ CallDownloadAudio
    \/ ConvertToWav
    \/ Cleanup
    \/ CallerTakesResult

SpecHelpers == HelperInit /\ [][HelperNext]_vars

(***************************************************************************)
(* Claims about the helpers (checked under SpecHelpers)                    *)
(***************************************************************************)
NewFiles == DOMAIN disk \ DOMAIN diskBefore

OldFilesKept == \A p \in DOMAIN diskBefore : p \in DOMAIN disk /\ disk[p] = diskBefore[p]

\* C6 (as claimed): convert_to_wav given a path whose extension is ".wav"
\* returns that path and creates no file.
C6_ConvertToWavNoOpOnWav ==
    (/\ lastCall.fn = "convert_to_wav"
     /\ lastCall.outcome = "return"
     /\ lastCall.arg.suffix = <<".", "wav">>) =>
        /\ lastCall.value = lastCall.arg
        /\ disk = diskBefore

\* C7: get_audio_file without 'audio_file' and 'audio_url' returns the
\* 'audio_path' when that path exists, raises FileNotFoundError when it does
\* not, raises ValueError when 'audio_path' is absent too, and creates no
\* file in any of the three cases.
C7_PathMode ==
    (/\ lastCall.fn = "get_audio_file"
     /\ "audio_file" \notin DOMAIN lastCall.arg
     /\ "audio_url" \notin DOMAIN lastCall.arg) =>
        /\ disk = diskBefore
        /\ IF "audio_path" \notin DOMAIN lastCall.arg
           THEN lastCall.outcome = "raise" /\ lastCall.error.type = "ValueError"
           ELSE IF lastCall.arg["audio_path"] \in DOMAIN diskBefore
           THEN lastCall.outcome = "return" /\ lastCall.value = lastCall.arg["audio_path"]
           ELSE lastCall.outcome = "raise" /\ lastCall.error.type = "FileNotFoundError"

\* get_audio_file was given only an 'audio_path', of a file that does not exist
C7_Witness ==
    /\ lastCall.fn = "get_audio_file"
    /\ DOMAIN lastCall.arg = {"audio_path"}
    /\ lastCall.arg["audio_path"] \notin DOMAIN diskBefore
    /\ lastCall.outcome = "raise"

\* the last call went through download_audio
UrlMode ==
    \/ lastCall.fn = "download_audio"
    \/ /\ lastCall.fn = "get_audio_file"
       /\ "audio_file" \notin DOMAIN lastCall.arg
       /\ "audio_url" \in DOMAIN lastCall.arg

CalledUrl == IF lastCall.fn = "download_audio" THEN lastCall.arg ELSE lastCall.arg["audio_url"]

\* the path component of "http://host/" followed by url: up to the first "?"
PathComponent(url) ==
    LET marks == {i \in 1..Len(url) : url[i] = "?"}
        stop == IF marks = {} THEN Len(url) + 1
                ELSE CHOOSE i \in marks : \A j \in marks : i <= j
    IN  <<"/">> \o SubSeq(url, 1, stop - 1)

\* C8: in URL mode a status other than 200 makes the call fail with a
\* message that carries the status, and no file is created; only a 200
\* creates a temporary file, whose suffix is the extension of the URL's path
\* and which, when the call returns it, holds the response bytes.
C8_UrlMode ==
    UrlMode =>
        /\ lastCall.http.status_code # 200 =>
              /\ lastCall.outcome = "raise"
              /\ disk = diskBefore
              /\ lastCall.http # NoHttp =>
                    ToString(lastCall.http.status_code) \in Range(lastCall.error.msg)
        /\ OldFilesKept
        /\ \A f \in NewFiles :
              /\ NewFiles = {f}
              /\ ExtensionIs(f.suffix, PathComponent(CalledUrl))
        /\ lastCall.outcome = "return" =>
              /\ NewFiles = {lastCall.value}
              /\ disk[lastCall.value] = lastCall.http.content

\* a download answered 200 for a URL whose query, not its path, ends in ".mp3"
C8_Witness ==
    /\ UrlMode
    /\ lastCall.outcome = "return"
    /\ lastCall.http.status_code = 200
    /\ CalledUrl = <<"?", ".", "mp3">>
    /\ lastCall.value \in DOMAIN disk

(***************************************************************************)
(* model_update                                                            *)
(***************************************************************************)
\* program constant: the number of words kept in a title
TitleWords == 4

\* texts are sequences of characters; " " stands for any whitespace character
Texts == SeqsUpTo({" ", "a"}, MaxTextLen)

InputTexts == {"hi", "hello there"}

IsSpace(c) == c = " "

\* the longest prefix of s without whitespace
RECURSIVE TakeWord(_)
TakeWord(s) ==
    IF s = <<>> \/ IsSpace(Head(s)) THEN <<>> ELSE <<Head(s)>> \o TakeWord(Tail(s))

\* str.split(' '): every single space separates, empty words are kept
RECURSIVE split_OnSingleSpace(_)
split_OnSingleSpace(s) ==
    LET w == TakeWord(s)
    IN  IF Len(w) = Len(s) THEN <<w>>
        ELSE <<w>> \o split_OnSingleSpace(SubSeq(s, Len(w) + 2, Len(s)))

\* str.split(): runs of whitespace separate, no empty words
RECURSIVE split(_)
split(s) ==
    IF s = <<>> THEN <<>>
    ELSE IF IsSpace(Head(s)) THEN split(Tail(s))
    ELSE LET w == TakeWord(s)
         IN  <<w>> \o split(SubSeq(s, Len(w) + 1, Len(s)))

\* sep.join(words)
RECURSIVE join(_, _)
join(sep, words) ==
    IF words = <<>> THEN <<>>
    ELSE IF Len(words) = 1 THEN words[1]
    ELSE words[1] \o sep \o join(sep, Tail(words))

\* words[:n]
Slice(words, n) == SubSeq(words, 1, IF Len(words) < n THEN Len(words) ELSE n)

\* ' '.join(output_text.split()[:4]) + '...'
Title(text) == join(<<" ">>, Slice(split(text), TitleWords)) \o <<".", ".", ".">>

\* datetime.isoformat()
isoformat(t) == <<"ISO-8601", ToString(t)>>

NoneValue == "None"

\* dict.get(key): the value, None when the key is absent
Get(data, key) == IF key \in DOMAIN data THEN data[key] ELSE NoneValue

\* the method test accepts everything but GET
IsPost_NotGet(method) == method # "GET"

\* request.method == 'POST'
IsPost(method) == method = "POST"

\* ChatHistory.objects.create(...): a new row with the next id and the
\* server's time
Create(rows, title, input_text, text, now) ==
    Append(rows, [id |-> Len(rows) + 1, title |-> title, input_text |-> input_text,
                  output_text |-> text, timestamp |-> now])

InvalidMethodResponse == [status |-> 400, body |-> [error |-> "Invalid request method"]]

\* an exception leaves the view: the framework answers with a server error
ServerError == [status |-> 500, body |-> [f \in {} |-> 0]]

\* the request bodies: whether json.loads accepts the text, and what it yields
Bodies ==
    { [valid_json |-> FALSE, data |-> [f \in {} |-> 0]] }
        \cup { [valid_json |-> TRUE, data |-> [f \in {} |-> 0]] }
        \cup { [valid_json |-> TRUE, data |-> [input_text |-> i]] : i \in InputTexts }
        \cup { [valid_json |-> TRUE, data |-> [output_text |-> output_text]] }
        \cup { [valid_json |-> TRUE, data |-> [input_text |-> i, output_text |-> output_text]] :
                 i \in InputTexts }

\* model_update(request)
ModelUpdate ==
    /\ pc = "idle"
    /\ clock < MaxHistoryRequests
    /\ clock' = clock + 1
    /\ pc' = "done"
    /\ \E method \in {"POST", "GET", "PUT"}, body \in Bodies :
         /\ request' = [method |-> method, body |-> body]
         /\ IF IsPost(method)
            THEN IF ~body.valid_json \/ Get(body.data, "output_text") = NoneValue
                 THEN \* json.loads raises, or None has no split
                      response' = ServerError /\ UNCHANGED store
                 ELSE \/ \* the store may refuse a row without input_text
                         /\ Get(body.data, "input_text") = NoneValue
                         /\ response' = ServerError
                         /\ UNCHANGED store
                      \/ LET title == Title(Get(body.data, "output_text"))
                             rows == Create(store, title, Get(body.data, "input_text"),
                                            Get(body.data, "output_text"), clock')
                             chat_history == rows[Len(rows)]
                         IN  /\ store' = rows
                             /\ response' =
                                  [status |-> 200,
                                   body |-> [id |-> chat_history.id,
                                             title |-> chat_history.title,
                                             timestamp |-> isoformat(chat_history.timestamp)]]
            ELSE response' = InvalidMethodResponse /\ UNCHANGED store
    /\ UNCHANGED <<disk, diskBefore, nextId, file_extension, input_file_path,
                   wav_file_path, transcription, events, created, served, lastCall,
                   output_text>>

\* the response is sent
HistoryResponseSent ==
    /\ pc = "done"
    /\ pc' = "idle"
    /\ request' = NoRequest
    /\ response' = NoResponse
    /\ UNCHANGED <<disk, diskBefore, nextId, file_extension, input_file_path,
                   wav_file_path, transcription, events, created, served, lastCall,
                   historyVars>>

HistoryInit ==
    /\ disk = [p \in {} |-> 0]
    /\ diskBefore = [p \in {} |-> 0]
    /\ nextId = 1
    /\ pc = "idle"
    /\ request = NoRequest
    /\ file_extension = <<>>
    /\ input_file_path = NoPath
    /\ wav_file_path = NoPath
    /\ transcription = ""
    /\ response = NoResponse
    /\ events = <<>>
    /\ created = {}
    /\ served = 0
    /\ lastCall = NoCall
    /\ store = <<>>
    /\ output_text \in Texts
    /\ clock = 0

HistoryNext ==
    \/ ModelUpdate
    \/ HistoryResponseSent

SpecHistory == HistoryInit /\ [][HistoryNext]_vars

(***************************************************************************)
(* Claims about model_update (checked under SpecHistory)                   *)
(***************************************************************************)
\* where the words of s start: a non-space character at the front of s or
\* right after a space
WordStarts(s) == {i \in 1..Len(s) : s[i] # " " /\ (i = 1 \/ s[i - 1] = " ")}

\* the n-th word of s, by position
NthWord(s, n) ==
    LET start == CHOOSE i \in WordStarts(s) :
                     Cardinality({j \in WordStarts(s) : j < i}) = n - 1
        stop == CHOOSE j \in start..Len(s) :
                    /\ \A k \in start..j : s[k] # " "
                    /\ j = Len(s) \/ s[j + 1] = " "
    IN  SubSeq(s, start, stop)

\* the n-th word of the title when s has one, with the space before it
TitlePiece(s, n) ==
    IF n > Cardinality(WordStarts(s)) THEN <<>>
    ELSE (IF n = 1 THEN <<>> ELSE <<" ">>) \o NthWord(s, n)

ExpectedTitle(s) ==
    TitlePiece(s, 1) \o TitlePiece(s, 2) \o TitlePiece(s, 3) \o TitlePiece(s, 4)
        \o <<".", ".", ".">>

\* C9: the title of every stored record is the first min(4, n) words of its
\* output_text joined by single spaces and followed by "...", also for
\* fewer than four words; records with the same output_text have the same
\* title whatever their other fields.
C9_TitleFromOutputText ==
    /\ \A i \in 1..Len(store) : store[i].title = ExpectedTitle(store[i].output_text)
    /\ \A i, j \in 1..Len(store) :
          store[i].output_text = store[j].output_text => store[i].title = store[j].title

\* two records of a five-word text that differ in input_text are stored
C9_Witness ==
    /\ Len(store) = 2
    /\ store[1].input_text # store[2].input_text
    /\ Cardinality(WordStarts(store[1].output_text)) = 5

ValidBody(body) ==
    /\ body.valid_json
    /\ DOMAIN body.data = {"input_text", "output_text"}

\* C10: the store only grows.  No step changes or removes a stored record; a
\* request that is not a POST gets 400 "Invalid request method" and leaves
\* the store as it is; a POST with a valid body adds exactly one record and
\* gets 200 with that record's id, title and timestamp.
C10_StoreOnlyGrows ==
    [][ /\ Len(store') >= Len(store)
        /\ SubSeq(store', 1, Len(store)) = store
        /\ (pc = "idle" /\ pc' = "done" /\ request'.method # "POST") =>
              /\ response' = [status |-> 400, body |-> [error |-> "Invalid request method"]]
              /\ store' = store
        /\ (pc = "idle" /\ pc' = "done" /\ request'.method = "POST"
                /\ ValidBody(request'.body)) =>
              /\ Len(store') = Len(store) + 1
              /\ \A i \in 1..Len(store) : store'[i].id # store'[Len(store')].id
              /\ response'.status = 200
              /\ response'.body.id = store'[Len(store')].id
              /\ response'.body.title = store'[Len(store')].title
              /\ response'.body.timestamp = <<"ISO-8601", ToString(store'[Len(store')].timestamp)>>
      ]_vars

\* a PUT has been refused after a record was stored
C10_Witness ==
    /\ pc = "done"
    /\ request.method = "PUT"
    /\ Len(store) = 1
    /\ response.status = 400

====
